---------------------------- MODULE Spec2Model ----------------------------
(***************************************************************************)
(* Model of the CADE Solana blockchain listener                            *)
(* (src/src/chain_analysis/blockchain_listener.py): endpoint failover,     *)
(* program subscription, the monitoring loop, transaction decoding and     *)
(* the fan-out of decoded transactions to the registered callbacks.        *)
(*                                                                         *)
(* One asyncio task runs start_monitoring.  Its position is pc; a step of  *)
(* the model runs the task from one await to the next one at which other   *)
(* code of the program (add_transaction_callback) can change state the     *)
(* task reads.  Endpoints are identified by their URL, numbered 1..N in    *)
(* the order primaries-then-backups; list indices are 0-based as in the    *)
(* source.                                                                 *)
(*                                                                         *)
(* The second part models the metric calculator                            *)
(* (src/src/score_aggregator/metric_calculator.py).  A Python float is an  *)
(* integer count of 1/Unit, Unit chosen so that every division the code    *)
(* makes on the inputs used here is exact; floating-point rounding is not  *)
(* modelled.  A dict is the sequence of its <<key, value>> items.          *)
(***************************************************************************)
EXTENDS Integers, Sequences, FiniteSets, TLC

\* ------------------------------------------------------------------ bounds
\* Most endpoints (primaries and backups together) of a configuration.
MaxPool == 3
\* Most callbacks registered, and most transactions received, in a run.
MaxCallbacks == 2
MaxTx == 2

\* The program ids the listener is constructed with.
Programs == {"p1", "p2"}

\* self.client = None (blockchain_listener.py:58)
NoClient == 0

\* What one failover attempt on an endpoint can do: AsyncClient(url) raises
\* ("ctor"), _verify_connection returns False ("bad") or True ("ok").
ProbeOutcomes == {"ok", "bad", "ctor"}

VARIABLES
    rpc_urls,          \* self.rpc_urls: sequence of URLs
    backup_rpcs,       \* self.backup_rpcs: sequence of URLs
    current_rpc_index, \* self.current_rpc_index (0-based)
    client,            \* URL the AsyncClient in self.client was built for
    lastProbe,         \* result of the latest _verify_connection on self.client
    watched_programs,  \* self.watched_programs
    subscribed,        \* programs subscribed on the object in self.client
    pending,           \* programs the for loop of start_monitoring has not visited
    subFailed,         \* programs whose subscribe_to_program raised
    transaction_callbacks, \* self.transaction_callbacks
    transactions_processed, \* self.metrics['transactions_processed']
    errors_encountered,     \* self.metrics['errors_encountered']
    pc,                \* position of the start_monitoring task
    exc,               \* the exception start_monitoring raised
    rxCount,           \* transactions received so far (the i-th gets id i)
    curTx,             \* [id, decoded, failed]: the transaction being processed,
                       \* with the two counters as process_transaction found them
    cbIdx,             \* 1-based position of the for loop over the callbacks
    delivered,         \* log of callback invocations <<tx id, consumer>>
    fo                 \* the failover call the last step made, if any

vars == <<rpc_urls, backup_rpcs, current_rpc_index, client, lastProbe,
          watched_programs, subscribed, pending, subFailed,
          transaction_callbacks, transactions_processed, errors_encountered,
          pc, exc, rxCount, curTx, cbIdx, delivered, fo>>

VARIABLES
    metric_weights,    \* self.metric_weights, in tenths
    metric_history,    \* self.metric_history: token -> list of AggregatedMetrics
    returned,          \* per token, every result calculate_metrics returned
    clock,             \* calls of calculate_metrics so far (datetime.now())
    call               \* the latest call: its arguments and what it returned

mvars == <<metric_weights, metric_history, returned, clock, call>>

\* Request-scoped tasks that call calculate_metrics on one event loop.
VARIABLES
    tstage,            \* per task, how far its call of calculate_metrics got
    ttoken,            \* per task, the token_address of its call
    tlocal             \* per task, the local variable metrics of its call

tvars == <<tstage, ttoken, tlocal>>

\* src/src/whale_detection/whale_tracker.py
VARIABLES
    min_whale_threshold_usd,  \* self.min_whale_threshold_usd, in cents
    whale_profiles,    \* self.whale_profiles: the items in insertion order
    tracked,           \* the track_wallet call the last step made, if any
    active,            \* the get_active_whales call the last step made, if any
    analysis           \* the latest analyze_movement call and its result

wvars == <<min_whale_threshold_usd, whale_profiles, tracked, active, analysis>>

\* risk classification, and src/src/api/routes.py
VARIABLES
    assessment,        \* the latest risk classification
    request,           \* the request POST /monitor is handling
    response,          \* the response the client receives
    monitoring_tasks   \* the monitoring tasks started

avars == <<assessment, request, response, monitoring_tasks>>

\* get_metrics of the listener
VARIABLES
    reported           \* the dict the get_metrics call returned, if one was made

beside_listener == <<mvars, tvars, wvars, avars, reported>>
beside_calculator == <<vars, tvars, wvars, avars, reported>>
beside_scoring == <<vars, wvars, avars, reported>>
beside_tracker == <<vars, mvars, tvars, avars, reported>>
beside_api == <<vars, mvars, tvars, wvars, reported>>
allvars == <<vars, mvars, tvars, wvars, avars, reported>>

config == <<rpc_urls, backup_rpcs, watched_programs>>
counters == <<transactions_processed, errors_encountered>>

\* ---------------------------------------------------------------- helpers
\* all_rpcs = self.rpc_urls + self.backup_rpcs
all_rpcs == rpc_urls \o backup_rpcs

PoolSize == Len(all_rpcs)

\* all_rpcs[idx] with Python's 0-based index
UrlAt(idx) == all_rpcs[idx + 1]

NoFailover == [called |-> FALSE]
NoTx == [id |-> 0, decoded |-> FALSE, failed |-> FALSE, error |-> "none",
         cbs |-> <<>>, processed0 |-> 0, errors0 |-> 0]

\* ---------------------------------------------------------------- failover
\* The for loop of _failover_to_backup from index idx on, with the
\* active index cur, the client cl, and hv[i] what endpoint i does if it is
\* tried.  Returns the indices tried, in order, the client left in
\* self.client, and whether an endpoint verified (then index is that one).
\* Mutant: no return after the endpoint that verified (line 118 missing).
RECURSIVE FailoverScanNoReturn(_, _, _, _, _)
FailoverScanNoReturn(idx, cur, cl, hv, probes) ==
    IF idx >= PoolSize
    THEN LET oks == {i \in 1..Len(probes) : hv[probes[i]] = "ok"} IN
         [ok |-> oks # {},
          index |-> IF oks = {} THEN cur
                    ELSE probes[CHOOSE i \in oks : \A j \in oks : j <= i],
          client |-> cl, probes |-> probes]
    ELSE IF idx = cur
    THEN FailoverScanNoReturn(idx + 1, cur, cl, hv, probes)
    ELSE IF hv[idx] = "ctor"
    THEN FailoverScanNoReturn(idx + 1, cur, cl, hv, Append(probes, idx))
    ELSE FailoverScanNoReturn(idx + 1, cur, UrlAt(idx), hv, Append(probes, idx))

\* Mutant: the active index is not skipped (lines 110-111 missing).
RECURSIVE FailoverScanNoSkip(_, _, _, _, _)
FailoverScanNoSkip(idx, cur, cl, hv, probes) ==
    IF idx >= PoolSize
    THEN [ok |-> FALSE, index |-> cur, client |-> cl, probes |-> probes]
    ELSE IF hv[idx] = "ctor"
    THEN FailoverScanNoSkip(idx + 1, cur, cl, hv, Append(probes, idx))
    ELSE IF hv[idx] = "ok"
    THEN [ok |-> TRUE, index |-> idx, client |-> UrlAt(idx),
          probes |-> Append(probes, idx)]
    ELSE FailoverScanNoSkip(idx + 1, cur, UrlAt(idx), hv, Append(probes, idx))

RECURSIVE FailoverScan(_, _, _, _, _)
FailoverScan(idx, cur, cl, hv, probes) ==
    IF idx >= PoolSize
    THEN [ok |-> FALSE, index |-> cur, client |-> cl, probes |-> probes]
    ELSE IF idx = cur
    THEN FailoverScan(idx + 1, cur, cl, hv, probes)
    ELSE IF hv[idx] = "ctor"
    THEN FailoverScan(idx + 1, cur, cl, hv, Append(probes, idx))
    ELSE IF hv[idx] = "ok"
    THEN [ok |-> TRUE, index |-> idx, client |-> UrlAt(idx),
          probes |-> Append(probes, idx)]
    ELSE FailoverScan(idx + 1, cur, UrlAt(idx), hv, Append(probes, idx))

\* Mutant: the scan starts after the active index instead of at index 0.
FailoverCallFromNext(cur, cl, hv) == FailoverScan(cur + 1, cur, cl, hv, <<>>)

\* Mutant: the index of the endpoint that verified is not stored (line 116
\* missing).
FailoverCallKeepsIndex(cur, cl, hv) ==
    [FailoverScan(0, cur, cl, hv, <<>>) EXCEPT !.index = cur]

\* One call of _failover_to_backup
FailoverCall(cur, cl, hv) == FailoverScan(0, cur, cl, hv, <<>>)

\* Mutant: the while loop swallows the error of the failover.
AfterLoopFailoverSwallowed(ok) == "sleep"

\* Where start_monitoring goes after a failover made in its while loop:
\* on to asyncio.sleep, or out through the outer except/raise.
AfterLoopFailover(ok) == IF ok THEN "sleep" ELSE "raised"

\* Where start_monitoring goes after the failover made by initialize.
AfterInitFailover(ok) == IF ok THEN "subscribing" ELSE "raised"

\* Whether the call assigned self.client (some AsyncClient(url) returned).
ClientReplaced(hv, probes) == \E i \in 1..Len(probes) : hv[probes[i]] # "ctor"

\* The state changes of one failover call with outcomes hv, made by caller
\* ("initialize" or "loop"); fo keeps what the call was given and did.
DoFailover(hv, caller) ==
    LET r == FailoverCall(current_rpc_index, client, hv) IN
    /\ current_rpc_index' = r.index
    /\ client' = r.client
    /\ subscribed' = IF ClientReplaced(hv, r.probes) THEN {} ELSE subscribed
    /\ lastProbe' = IF r.ok THEN "ok"
                    ELSE IF ClientReplaced(hv, r.probes) THEN "bad"
                    ELSE lastProbe
    /\ fo' = [called |-> TRUE, caller |-> caller, prev |-> current_rpc_index,
              prevClient |-> client, health |-> hv, probes |-> r.probes,
              ok |-> r.ok]

HealthVectors == [0..(PoolSize - 1) -> ProbeOutcomes]

\* ------------------------------------------------------------------- Init
\* The state after __init__ (lines 55-78), for every configuration within
\* the bounds with at least one endpoint, the backup list empty or holding
\* one URL as in the module's example (line 248): watched_programs is never
\* empty (the default set replaces an empty or missing list).
ListenerInit ==
    /\ \E np \in 0..MaxPool, nb \in {0, 1} :
          /\ np + nb \in 1..MaxPool
          /\ rpc_urls = [i \in 1..np |-> i]
          /\ backup_rpcs = [i \in 1..nb |-> np + i]
    /\ watched_programs = Programs
    /\ current_rpc_index = 0
    /\ client = NoClient
    /\ lastProbe = "none"
    /\ subscribed = {}
    /\ pending = {}
    /\ subFailed = {}
    /\ transaction_callbacks = <<>>
    /\ transactions_processed = 0
    /\ errors_encountered = 0
    /\ pc = "start"
    /\ exc = "none"
    /\ rxCount = 0
    /\ curTx = NoTx
    /\ cbIdx = 0
    /\ delivered = <<>>
    /\ fo = NoFailover

\* ---------------------------------------------------------------- actions
\* add_transaction_callback (lines 222-229): list.append, callable at any
\* time.  A callable is named by the rank of its registration; what it does
\* when invoked is chosen at each invocation.
AddTransactionCallback ==
    /\ UNCHANGED beside_listener
    /\ Len(transaction_callbacks) < MaxCallbacks
    /\ transaction_callbacks' =
          Append(transaction_callbacks, Len(transaction_callbacks) + 1)
    /\ UNCHANGED <<config, current_rpc_index, client, lastProbe, subscribed,
                   pending, subFailed, counters, pc, exc, rxCount, curTx,
                   cbIdx, delivered, fo>>

\* start_monitoring up to the end of initialize (lines 197-198, 80-88), when
\* AsyncClient(rpc_urls[0]) returns: the result of _verify_connection is
\* discarded, so the loop over the programs is reached whatever it is.
InitializeConnected ==
    /\ UNCHANGED beside_listener
    /\ pc = "start"
    /\ current_rpc_index < Len(rpc_urls)
    /\ client' = rpc_urls[current_rpc_index + 1]
    /\ \E h \in {"ok", "bad"} : lastProbe' = h
    /\ subscribed' = {}
    /\ pending' = watched_programs
    /\ pc' = "subscribing"
    /\ fo' = NoFailover
    /\ UNCHANGED <<config, current_rpc_index, subFailed, transaction_callbacks,
                   counters, exc, rxCount, curTx, cbIdx, delivered>>

\* initialize when rpc_urls[0] does not exist (IndexError) or AsyncClient
\* raises: the except branch calls _failover_to_backup, whose
\* ConnectionError leaves initialize and start_monitoring.
InitializeFailover ==
    /\ UNCHANGED beside_listener
    /\ pc = "start"
    /\ \E hv \in HealthVectors :
          /\ DoFailover(hv, "initialize")
          /\ LET ok == FailoverCall(current_rpc_index, client, hv).ok IN
             /\ pc' = AfterInitFailover(ok)
             /\ exc' = IF AfterInitFailover(ok) = "raised" THEN "ConnectionError" ELSE exc
             /\ pending' = IF AfterInitFailover(ok) = "raised" THEN pending
                           ELSE watched_programs
    /\ UNCHANGED <<config, subFailed, transaction_callbacks, counters, rxCount,
                   curTx, cbIdx, delivered>>

\* Mutant: subscribe_to_program logs the error and returns (no raise).
AfterSubscribeSwallowed(ok, rest) == IF rest = {} THEN "receive" ELSE "subscribing"

\* Where start_monitoring goes after one subscribe_to_program call of its
\* for loop: subscribe_to_program re-raises (line 152) and so does
\* start_monitoring (line 220); after the last program the while loop starts.
AfterSubscribe(ok, rest) ==
    IF ~ok THEN "raised" ELSE IF rest = {} THEN "receive" ELSE "subscribing"

\* One iteration of the for loop of start_monitoring (lines 201-202) with
\* subscribe_to_program (lines 124-152).  The set is iterated in no
\* particular order; subscribing fails when Pubkey.from_string or
\* transaction_subscribe raises.
SubscribeToProgram ==
    /\ UNCHANGED beside_listener
    /\ pc = "subscribing"
    /\ \E p \in pending, ok \in BOOLEAN :
          /\ subscribed' = IF ok THEN subscribed \cup {p} ELSE subscribed
          /\ watched_programs' = IF ok THEN watched_programs \cup {p}
                                 ELSE watched_programs
          /\ subFailed' = IF ok THEN subFailed ELSE subFailed \cup {p}
          /\ pending' = pending \ {p}
          /\ pc' = AfterSubscribe(ok, pending \ {p})
          /\ exc' = IF AfterSubscribe(ok, pending \ {p}) = "raised"
                    THEN "SubscribeError" ELSE exc
    /\ fo' = NoFailover
    /\ UNCHANGED <<rpc_urls, backup_rpcs, current_rpc_index, client, lastProbe,
                   transaction_callbacks, counters, rxCount, curTx, cbIdx,
                   delivered>>

\* receive_data raises, or its response cannot be tested for 'result'
\* (lines 209-214): the except branch of the while loop calls
\* _failover_to_backup and nothing else.
ReceiveError ==
    /\ UNCHANGED beside_listener
    /\ pc = "receive"
    /\ \E hv \in HealthVectors :
          /\ DoFailover(hv, "loop")
          /\ LET ok == FailoverCall(current_rpc_index, client, hv).ok IN
             /\ pc' = AfterLoopFailover(ok)
             /\ exc' = IF AfterLoopFailover(ok) = "raised" THEN "ConnectionError"
                       ELSE exc
    /\ UNCHANGED <<config, pending, subFailed, transaction_callbacks, counters,
                   rxCount, curTx, cbIdx, delivered>>

\* receive_data returns a falsy response or one without 'result' (line 210).
ReceiveNothing ==
    /\ UNCHANGED beside_listener
    /\ pc = "receive"
    /\ pc' = "sleep"
    /\ fo' = NoFailover
    /\ UNCHANGED <<config, current_rpc_index, client, lastProbe, subscribed,
                   pending, subFailed, transaction_callbacks, counters, exc,
                   rxCount, curTx, cbIdx, delivered>>

\* The raw transactions an endpoint may send: with or without the
\* 'transaction' field, bytes that Transaction.from_bytes accepts or not,
\* and, when it does, nkeys account keys and one instruction whose
\* program_id_index is pidx.
RawTransactions ==
    [field : BOOLEAN, wellformed : BOOLEAN, nkeys : 1..2, pidx : 0..2]

\* The decoding part of process_transaction (lines 163-182): the error it
\* raises, or "none".
DecodeError(raw) ==
    IF ~raw.field THEN "KeyError"
    ELSE IF ~raw.wellformed THEN "ValueError"
    ELSE IF raw.pidx >= raw.nkeys THEN "IndexError"
    ELSE "none"

\* Mutant: the counter is incremented before the decoding.
ProcessedBeforeDecode(err, n) == n + 1

\* transactions_processed after the decoding: line 185 is reached only when
\* nothing raised before it.
ProcessedAfterDecode(err, n) == IF err = "none" THEN n + 1 ELSE n

\* process_transaction from line 184 on, once decoding succeeded: the counter
\* is incremented and the for loop over the callbacks starts; with no
\* callback the call is over.
AfterDecode(ncb) == IF ncb = 0 THEN "sleep" ELSE "dispatch"

\* receive_data returns a response with a 'result' (lines 209-211):
\* process_transaction decodes it; a decoding error is counted in the except
\* branch (lines 191-193) and process_transaction returns normally.
ReceiveTransaction ==
    /\ UNCHANGED beside_listener
    /\ pc = "receive"
    /\ rxCount < MaxTx
    /\ rxCount' = rxCount + 1
    /\ \E raw \in RawTransactions :
          LET err == DecodeError(raw) IN
          IF err # "none"
          THEN /\ errors_encountered' = errors_encountered + 1
               /\ transactions_processed' =
                     ProcessedAfterDecode(err, transactions_processed)
               /\ curTx' = [id |-> rxCount + 1, decoded |-> FALSE,
                            failed |-> FALSE, error |-> err, cbs |-> <<>>,
                            processed0 |-> transactions_processed,
                            errors0 |-> errors_encountered]
               /\ pc' = "sleep"
               /\ cbIdx' = 0
          ELSE /\ transactions_processed' =
                     ProcessedAfterDecode(err, transactions_processed)
               /\ errors_encountered' = errors_encountered
               /\ curTx' = [id |-> rxCount + 1, decoded |-> TRUE,
                            failed |-> FALSE, error |-> "none",
                            cbs |-> <<>>,
                            processed0 |-> transactions_processed,
                            errors0 |-> errors_encountered]
               /\ pc' = AfterDecode(Len(transaction_callbacks))
               /\ cbIdx' = IF transaction_callbacks = <<>> THEN 0 ELSE 1
    /\ fo' = NoFailover
    /\ UNCHANGED <<config, current_rpc_index, client, lastProbe, subscribed,
                   pending, subFailed, transaction_callbacks, exc, delivered>>

\* Mutant: the newest invocation is put in front.
RecordInvocationFirst(log, tx, c) == <<<<tx, c>>>> \o log

\* The record of one callback invocation (line 189).
RecordInvocation(log, tx, c) == Append(log, <<tx, c>>)

\* Mutant: a callback's exception is counted and the loop goes on.
AfterCallbackContinues(raised, i, n) == IF i < n THEN "dispatch" ELSE "sleep"

\* Mutant: a callback's exception is not caught by process_transaction.
AfterCallbackPropagates(raised, i, n) ==
    IF raised THEN "raised" ELSE IF i < n THEN "dispatch" ELSE "sleep"

\* The for loop of process_transaction after callback number i returned or
\* raised, with n callbacks in the list at that moment: a raise leaves the
\* loop for the except branch of line 191.
AfterCallback(raised, i, n) ==
    IF raised THEN "sleep" ELSE IF i < n THEN "dispatch" ELSE "sleep"

\* One iteration of the for loop over self.transaction_callbacks (lines
\* 188-189): the callback at the iterator's position is awaited.  If it
\* raises, the except branch counts an error and process_transaction
\* returns.  The list iterator sees callbacks appended while it runs.
InvokeCallback ==
    /\ UNCHANGED beside_listener
    /\ pc = "dispatch"
    /\ cbIdx <= Len(transaction_callbacks)
    /\ delivered' = RecordInvocation(delivered, curTx.id, transaction_callbacks[cbIdx])
    /\ \E raised \in BOOLEAN :
          /\ errors_encountered' = IF raised THEN errors_encountered + 1
                                   ELSE errors_encountered
          /\ pc' = AfterCallback(raised, cbIdx, Len(transaction_callbacks))
          /\ curTx' = [curTx EXCEPT !.failed = raised,
                                    !.cbs = IF AfterCallback(raised, cbIdx, Len(transaction_callbacks)) = "sleep"
                                            THEN transaction_callbacks ELSE @]
          /\ cbIdx' = cbIdx + 1
    /\ fo' = NoFailover
    /\ UNCHANGED <<config, current_rpc_index, client, lastProbe, subscribed,
                   pending, subFailed, transaction_callbacks,
                   transactions_processed, exc, rxCount>>

\* asyncio.sleep(0.1) at the end of an iteration of the while loop (line 216).
Sleep ==
    /\ UNCHANGED beside_listener
    /\ pc = "sleep"
    /\ pc' = "receive"
    /\ curTx' = NoTx
    /\ cbIdx' = 0
    /\ fo' = NoFailover
    /\ UNCHANGED <<config, current_rpc_index, client, lastProbe, subscribed,
                   pending, subFailed, transaction_callbacks, counters, exc,
                   rxCount, delivered>>

Next ==
    \/ AddTransactionCallback
    \/ InitializeConnected
    \/ InitializeFailover
    \/ SubscribeToProgram
    \/ ReceiveError
    \/ ReceiveNothing
    \/ ReceiveTransaction
    \/ InvokeCallback
    \/ Sleep

\* ================================================== metric calculator
\* src/src/score_aggregator/metric_calculator.py
Tokens == {"tokenA", "tokenB"}

\* One unit of the fixed-point representation of a float: 1.0 is Unit.
Unit == 30 * 1000 * 1000

\* The float milli/1000.
F(milli) == milli * (Unit \div 1000)

\* float('nan'), what np.mean returns for an empty list.
NaN == 0 - 60 * Unit

\* A dict value that is not a number (None): arithmetic on it raises TypeError.
NoneValue == NaN - 1

\* Normalisation maxima and the history capacity.
VolumeMax == 1000000
LiquidityMax == 500000
SocialVolumeMax == 1000
DataPointsFull == 100
HistoryCap == 1000

\* Bounds of the history exploration: calls for tokenA; calls for tokenB,
\* which are made while tokenA has at most that many results.
MaxCalls == 1050
MaxOtherCalls == 1

DefaultWeights == [chain |-> 4, sentiment |-> 3, market |-> 3]

\* dict operations on a sequence of <<key, value>> items
Has(d, k) == \E i \in 1..Len(d) : d[i][1] = k

\* Mutant: a missing key is not defaulted (d[k] instead of d.get(k, 0)); the
\* KeyError is caught like any other failure of the computation.
GetStrict(d, k, dflt) ==
    IF Has(d, k) THEN d[CHOOSE i \in 1..Len(d) : d[i][1] = k][2] ELSE NoneValue

Get(d, k, dflt) ==
    IF Has(d, k) THEN d[CHOOSE i \in 1..Len(d) : d[i][1] = k][2] ELSE dflt

Values(d) == [i \in 1..Len(d) |-> d[i][2]]

HasNone(d) == \E i \in 1..Len(d) : d[i][2] = NoneValue

RECURSIVE SumSeq(_)
SumSeq(xs) == IF xs = <<>> THEN 0 ELSE xs[1] + SumSeq(Tail(xs))

\* Python's min(1.0, x): no lower clamp.
Min1(x) == IF x < Unit THEN x ELSE Unit

\* raw / vmax as a float
Ratio(raw, vmax) == raw * (Unit \div vmax)

\* Mutant: the values are summed, not averaged.
SumNotMean(xs) == IF Len(xs) = 0 THEN NaN ELSE SumSeq(xs)

\* np.mean of a list of numbers
Mean(xs) == IF Len(xs) = 0 THEN NaN ELSE SumSeq(xs) \div Len(xs)

\* _calculate_chain_metrics (lines 101-128); the except branch returns {}.
ChainMetrics(chain_data) ==
    LET tv == Get(chain_data, "transaction_volume", 0)
        wa == Get(chain_data, "whale_activity", 0)
        liq == Get(chain_data, "liquidity", 0)
    IN  IF NoneValue \in {tv, wa, liq} THEN <<>>
        ELSE << <<"transaction_volume", Min1(Ratio(tv, VolumeMax))>>,
                <<"whale_activity", Min1(wa)>>,
                <<"liquidity_score", Min1(Ratio(liq, LiquidityMax))>> >>

\* _calculate_sentiment_metrics (lines 130-151): sentiment_score and
\* sentiment_change are stored as given.
SentimentMetrics(sentiment_data) ==
    LET ss == Get(sentiment_data, "sentiment_score", 0)
        sv == Get(sentiment_data, "social_volume", 0)
        sc == Get(sentiment_data, "sentiment_change", 0)
    IN  IF sv = NoneValue THEN <<>>
        ELSE << <<"sentiment_score", ss>>,
                <<"social_volume", Min1(Ratio(sv, SocialVolumeMax))>>,
                <<"sentiment_change", sc>> >>

\* _calculate_market_metrics (lines 153-177): price_momentum is stored as
\* given.
MarketMetrics(market_data) ==
    LET vol == Get(market_data, "volatility", 0)
        pm == Get(market_data, "price_momentum", 0)
        vp == Get(market_data, "volume_profile", 0)
    IN  IF NoneValue \in {vol, vp} THEN <<>>
        ELSE << <<"volatility", Min1(vol)>>,
                <<"price_momentum", pm>>,
                <<"volume_profile", Min1(vp)>> >>

\* score * weight, the weight in tenths; nan propagates.
Weighted(score, w10) == IF score = NaN THEN NaN ELSE (score \div 10) * w10

Plus(a, b) == IF a = NaN \/ b = NaN THEN NaN ELSE a + b

\* Mutant: the categories are averaged without their weights.
CompositeUnweighted(weights, chain_metrics, sentiment_metrics, market_metrics) ==
    IF HasNone(chain_metrics) \/ HasNone(sentiment_metrics)
           \/ HasNone(market_metrics)
    THEN 0
    ELSE IF <<>> \in {chain_metrics, sentiment_metrics, market_metrics} THEN NaN
    ELSE (Mean(Values(chain_metrics)) + Mean(Values(sentiment_metrics))
              + Mean(Values(market_metrics))) \div 3

\* _calculate_composite_score (lines 179-202): np.mean of each category's
\* values, then the weighted sum in the order chain, sentiment, market; a
\* TypeError inside np.mean is caught and 0.0 returned.
CompositeScore(weights, chain_metrics, sentiment_metrics, market_metrics) ==
    IF HasNone(chain_metrics) \/ HasNone(sentiment_metrics)
           \/ HasNone(market_metrics)
    THEN 0
    ELSE Plus(Plus(Weighted(Mean(Values(chain_metrics)), weights.chain),
                   Weighted(Mean(Values(sentiment_metrics)), weights.sentiment)),
              Weighted(Mean(Values(market_metrics)), weights.market))

\* Mutant: an absent indicator counts as 0 in the mean.
ConfidenceAbsentAsZero(chain_data, sentiment_data, market_data) ==
    LET dp == Get(chain_data, "data_points", 0)
        confidences ==
            << IF dp > 0 THEN Min1(Ratio(dp, DataPointsFull)) ELSE 0,
               Get(sentiment_data, "confidence", 0),
               Get(market_data, "data_quality", 0) >>
    IN  IF dp = NoneValue \/ NoneValue \in {confidences[2], confidences[3]}
        THEN 0
        ELSE Mean(confidences)

\* _calculate_confidence (lines 204-232): the indicators present, in the
\* order chain, sentiment, market; their mean, 0.0 when there is none and 0.0
\* when a TypeError is caught.
Confidence(chain_data, sentiment_data, market_data) ==
    LET dp == Get(chain_data, "data_points", 0)
        c1 == IF dp # NoneValue /\ dp > 0
              THEN <<Min1(Ratio(dp, DataPointsFull))>> ELSE <<>>
        c2 == IF Has(sentiment_data, "confidence")
              THEN <<Get(sentiment_data, "confidence", 0)>> ELSE <<>>
        c3 == IF Has(market_data, "data_quality")
              THEN <<Get(market_data, "data_quality", 0)>> ELSE <<>>
        confidences == c1 \o c2 \o c3
    IN  IF dp = NoneValue \/ \E i \in 1..Len(confidences) :
                                 confidences[i] = NoneValue
        THEN 0
        ELSE IF confidences = <<>> THEN 0 ELSE Mean(confidences)

\* Mutant: the history is never truncated.
UpdateHistoryNoTrim(history, metrics) == Append(history, metrics)

\* Mutant: truncation keeps the oldest entries.
UpdateHistoryKeepOldest(history, metrics) ==
    LET appended == Append(history, metrics)
    IN  IF Len(appended) > HistoryCap
        THEN SubSeq(appended, 1, HistoryCap)
        ELSE appended

\* _update_history (lines 234-249): append, then keep the last 1000.
UpdateHistory(history, metrics) ==
    LET appended == Append(history, metrics)
    IN  IF Len(appended) > HistoryCap
        THEN SubSeq(appended, Len(appended) - HistoryCap + 1, Len(appended))
        ELSE appended

\* The AggregatedMetrics built by calculate_metrics (lines 62-90).
Aggregate(weights, token, now, chain_data, sentiment_data, market_data) ==
    LET chain_metrics == ChainMetrics(chain_data)
        sentiment_metrics == SentimentMetrics(sentiment_data)
        market_metrics == MarketMetrics(market_data)
    IN  [ token_address |-> token,
          timestamp |-> now,
          chain_metrics |-> chain_metrics,
          sentiment_metrics |-> sentiment_metrics,
          market_metrics |-> market_metrics,
          composite_score |-> CompositeScore(weights, chain_metrics,
                                             sentiment_metrics, market_metrics),
          confidence |-> Confidence(chain_data, sentiment_data, market_data) ]

NoResult == [ token_address |-> "none" ]

NoCall ==
    [ made |-> FALSE, token |-> "none", chain_data |-> <<>>,
      sentiment_data |-> <<>>, market_data |-> <<>>, result |-> NoResult ]

\* MetricCalculator.__init__ (lines 37-51): the weights are stored as given.
Configured(weights) ==
    /\ metric_weights = weights
    /\ metric_history = [t \in Tokens |-> <<>>]
    /\ returned = [t \in Tokens |-> <<>>]
    /\ clock = 0

CalculatorInit == Configured(DefaultWeights) /\ call = NoCall

\* Mutant: the keys of metric_history share one list.
HistoryAfterShared(table, token, metrics) ==
    [t \in DOMAIN table |-> UpdateHistory(table[token], metrics)]

\* self.metric_history after _update_history: defaultdict(list) (line 51)
\* gives every token a list of its own, and lines 241-246 index it by
\* token_address.
HistoryAfter(table, token, metrics) ==
    [table EXCEPT ![token] = UpdateHistory(@, metrics)]

\* calculate_metrics (lines 53-99): the whole call, history update included.
\* datetime.now() is the number of the call.
CalculateMetrics(token, chain_data, sentiment_data, market_data) ==
    LET metrics == Aggregate(metric_weights, token, clock + 1,
                             chain_data, sentiment_data, market_data)
    IN  /\ clock' = clock + 1
        /\ metric_history' = HistoryAfter(metric_history, token, metrics)
        /\ returned' = [returned EXCEPT ![token] = Append(@, metrics)]
        /\ call' = [ made |-> TRUE, token |-> token, chain_data |-> chain_data,
                     sentiment_data |-> sentiment_data,
                     market_data |-> market_data, result |-> metrics ]
        /\ UNCHANGED metric_weights

\* ---- the other components before any call is made to them
\* Most request-scoped tasks.
MaxTasks == 2

Tasks == 1..MaxTasks

NoReport == [ made |-> FALSE ]

TelemetryIdle == reported = NoReport

TasksIdle ==
    /\ tstage = [t \in Tasks |-> "idle"]
    /\ ttoken = [t \in Tasks |-> "none"]
    /\ tlocal = [t \in Tasks |-> NoResult]

\* WhaleTracker.__init__ (lines 53-70), the threshold in cents.
DefaultThreshold == 100000 * 100

NoTracked == [ made |-> FALSE ]

NoActive == [ made |-> FALSE ]

NoAnalysis == [ made |-> FALSE ]

TrackerConfigured(threshold) ==
    /\ min_whale_threshold_usd = threshold
    /\ whale_profiles = <<>>

TrackerIdle ==
    /\ TrackerConfigured(DefaultThreshold)
    /\ tracked = NoTracked
    /\ active = NoActive
    /\ analysis = NoAnalysis

NoAssessment == [ made |-> FALSE ]

NoRequest == [ made |-> FALSE ]

NoResponse == [ status |-> 0 ]

ApiIdle ==
    /\ assessment = NoAssessment
    /\ request = NoRequest
    /\ response = NoResponse
    /\ monitoring_tasks = <<>>

\* The listener, constructed and left idle, beside the calculator.
ListenerIdle == ListenerInit /\ rpc_urls = <<1>> /\ backup_rpcs = <<>>

\* The input of main (lines 259-279).
ReferenceChain ==
    << <<"transaction_volume", 500000>>, <<"whale_activity", F(700)>>,
       <<"liquidity", 300000>>, <<"data_points", 150>> >>

ReferenceSentiment ==
    << <<"sentiment_score", F(800)>>, <<"social_volume", 500>>,
       <<"sentiment_change", F(200)>>, <<"confidence", F(900)>> >>

ReferenceMarket ==
    << <<"volatility", F(400)>>, <<"price_momentum", F(600)>>,
       <<"volume_profile", F(700)>>, <<"data_quality", F(850)>> >>

\* -------- repeated calls on a default calculator: the history
CallAllowed(t) ==
    IF t = "tokenA"
    THEN Len(returned[t]) < MaxCalls
    ELSE /\ Len(returned[t]) < MaxOtherCalls
         /\ Len(returned["tokenA"]) <= MaxOtherCalls

CalculateReference ==
    /\ \E t \in Tokens :
          /\ CallAllowed(t)
          /\ CalculateMetrics(t, ReferenceChain, ReferenceSentiment,
                              ReferenceMarket)
    /\ UNCHANGED beside_calculator

InitHistory ==
    ListenerIdle /\ CalculatorInit /\ TasksIdle /\ TrackerIdle /\ ApiIdle
    /\ TelemetryIdle

SpecHistory == InitHistory /\ [][CalculateReference]_<<vars, mvars>>

\* -------- one call on a calculator configured with given weights
\* A field that may be absent from a summary, or hold one of the values Vs.
Opt(k, Vs) == {<<>>} \cup { << <<k, v>> >> : v \in Vs }

ChainInputs ==
    { tv \o wl \o dp :
        tv \in Opt("transaction_volume",
                   {500000, 2000000, 0 - 1000000, NoneValue}),
        wl \in { <<>>, << <<"whale_activity", F(700)>>,
                          <<"liquidity", 300000>> >> },
        dp \in Opt("data_points", {0, 50, 150}) }

SentimentInputs ==
    { sv \o sc \o cf :
        sv \in { <<>>, << <<"sentiment_score", F(800)>>,
                          <<"social_volume", 500>> >> },
        sc \in Opt("sentiment_change", {F(200), F(0 - 1000)}),
        cf \in Opt("confidence", {F(900), F(2000)}) }

MarketInputs ==
    { (IF vv THEN << <<"volatility", F(400)>> >> ELSE <<>>) \o pm
          \o (IF vv THEN << <<"volume_profile", F(700)>> >> ELSE <<>>) \o dq :
        vv \in BOOLEAN,
        pm \in Opt("price_momentum", {F(600), F(1500)}),
        dq \in Opt("data_quality", {F(850)}) }

\* Values of the metric_weights argument, in tenths.
WeightConfigs ==
    { DefaultWeights,
      [chain |-> 2, sentiment |-> 5, market |-> 3],
      [chain |-> 10, sentiment |-> 0, market |-> 0],
      [chain |-> 15, sentiment |-> 0 - 5, market |-> 0],
      [chain |-> 5, sentiment |-> 5, market |-> 5] }

InitScore ==
    /\ ListenerIdle
    /\ TasksIdle /\ TrackerIdle /\ ApiIdle
    /\ TelemetryIdle
    /\ \E weights \in WeightConfigs : Configured(weights)
    /\ \E cd \in ChainInputs, sd \in SentimentInputs, md \in MarketInputs :
          call = [ made |-> FALSE, token |-> "tokenA", chain_data |-> cd,
                   sentiment_data |-> sd, market_data |-> md,
                   result |-> NoResult ]

CalculateOnce ==
    /\ ~call.made
    /\ CalculateMetrics(call.token, call.chain_data, call.sentiment_data,
                        call.market_data)
    /\ UNCHANGED beside_calculator

SpecScore == InitScore /\ [][CalculateOnce]_<<vars, mvars>>

\* -------- request-scoped tasks calling calculate_metrics on one event loop
\* Most calls of calculate_metrics the tasks make together.
MaxTaskCalls == 3

\* Mutant: the call awaits between building its result and recording it.
SuspendsAfterCompute(stage) == stage = "computed"

\* Whether the coroutine is suspended at an await when it is at stage:
\* calculate_metrics (lines 53-99) has no await, its helpers are plain
\* functions.
Suspends(stage) == FALSE

InProgress(t) == tstage[t] \in {"computed", "updated"}

\* The event loop can run t: it switches tasks only at an await.
MayRun(t) == \A u \in Tasks \ {t} : InProgress(u) => Suspends(tstage[u])

\* A request-scoped task is created with a call of calculate_metrics.
TaskCall ==
    /\ \E t \in Tasks, token \in Tokens :
          /\ tstage[t] = "idle"
          /\ clock + Cardinality({u \in Tasks : tstage[u] = "called"})
                < MaxTaskCalls
          /\ tstage' = [tstage EXCEPT ![t] = "called"]
          /\ ttoken' = [ttoken EXCEPT ![t] = token]
    /\ UNCHANGED <<tlocal, mvars, beside_scoring>>

\* Lines 62-90: the category metrics, the scores and the AggregatedMetrics.
TaskCompute ==
    /\ \E t \in Tasks :
          /\ tstage[t] = "called"
          /\ MayRun(t)
          /\ tlocal' = [tlocal EXCEPT ![t] =
                Aggregate(metric_weights, ttoken[t], clock + 1, ReferenceChain,
                          ReferenceSentiment, ReferenceMarket)]
          /\ tstage' = [tstage EXCEPT ![t] = "computed"]
    /\ clock' = clock + 1
    /\ UNCHANGED <<ttoken, metric_weights, metric_history, returned, call,
                   beside_scoring>>

\* Line 93: self._update_history(token_address, metrics).
TaskUpdate ==
    /\ \E t \in Tasks :
          /\ tstage[t] = "computed"
          /\ MayRun(t)
          /\ metric_history' = [metric_history EXCEPT ![ttoken[t]] =
                                   UpdateHistory(@, tlocal[t])]
          /\ tstage' = [tstage EXCEPT ![t] = "updated"]
    /\ UNCHANGED <<ttoken, tlocal, metric_weights, returned, clock, call,
                   beside_scoring>>

\* Line 95: return metrics; the task completes.
TaskReturn ==
    /\ \E t \in Tasks :
          /\ tstage[t] = "updated"
          /\ MayRun(t)
          /\ returned' = [returned EXCEPT ![ttoken[t]] = Append(@, tlocal[t])]
          /\ call' = [ made |-> TRUE, token |-> ttoken[t],
                       chain_data |-> ReferenceChain,
                       sentiment_data |-> ReferenceSentiment,
                       market_data |-> ReferenceMarket, result |-> tlocal[t] ]
          /\ tstage' = [tstage EXCEPT ![t] = "idle"]
          /\ tlocal' = [tlocal EXCEPT ![t] = NoResult]
    /\ UNCHANGED <<ttoken, metric_weights, metric_history, clock,
                   beside_scoring>>

NextTasks == TaskCall \/ TaskCompute \/ TaskUpdate \/ TaskReturn

SpecTasks == InitHistory /\ [][NextTasks]_allvars

\* -------- the monitoring task is cancelled
\* task.cancel() raises CancelledError at the await the task is suspended
\* at: transaction_subscribe (line 141), receive_data (line 209), a callback
\* (line 189) or asyncio.sleep (line 216).  CancelledError is not an
\* Exception, so no except clause of lines 191, 212, 218 handles it, and
\* start_monitoring has no finally clause: nothing else changes.
Cancel ==
    /\ UNCHANGED beside_listener
    /\ pc \in {"subscribing", "receive", "dispatch", "sleep"}
    /\ pc' = "cancelled"
    /\ exc' = "CancelledError"
    /\ fo' = NoFailover
    /\ UNCHANGED <<config, current_rpc_index, client, lastProbe, subscribed,
                   pending, subFailed, transaction_callbacks, counters,
                   rxCount, curTx, cbIdx, delivered>>

NextCancel ==
    \/ AddTransactionCallback
    \/ InitializeConnected
    \/ InitializeFailover
    \/ SubscribeToProgram
    \/ ReceiveError
    \/ ReceiveNothing
    \/ ReceiveTransaction
    \/ InvokeCallback
    \/ Sleep
    \/ Cancel

\* ============================================================ whale tracker
\* src/src/whale_detection/whale_tracker.py.  Amounts of USD are in cents.
Wallets == {"w1", "w2", "w3"}

\* None, as a token_address argument and as a returned profile.
NoToken == "None"

NoProfile == [ wallet_address |-> "None" ]

Thresholds == { DefaultThreshold, 1000000 * 100 }

\* What _calculate_holdings (lines 161-188) computes for a wallet: the body
\* in the source is a placeholder returning 0.0; the lookup of the balance
\* is an external one and may return any value.
HoldingsOf(threshold) == { 0, threshold - 1, threshold }

\* What _create_whale_profile (lines 190-205, body not in the source)
\* derives for a wallet: positions per token, activity and influence.
ProfileShapes ==
    { [ tokens_held |-> << <<"tokenA", 5>> >>,
        activity_score |-> F(500), influence_rating |-> F(800) ],
      [ tokens_held |-> << <<"tokenA", 0>> >>,
        activity_score |-> F(500), influence_rating |-> F(800) ],
      [ tokens_held |-> << <<"tokenA", 5>>, <<"tokenB", 1>> >>,
        activity_score |-> F(900), influence_rating |-> F(200) ],
      [ tokens_held |-> << <<"tokenA", 5>> >>,
        activity_score |-> F(300), influence_rating |-> F(800) ],
      [ tokens_held |-> <<>>,
        activity_score |-> F(900), influence_rating |-> F(200) ] }

CreateWhaleProfile(wallet, holdings, shape) ==
    [ wallet_address |-> wallet,
      total_holdings_usd |-> holdings,
      tokens_held |-> shape.tokens_held,
      activity_score |-> shape.activity_score,
      influence_rating |-> shape.influence_rating ]

\* d[k] = v on a dict: a key already present keeps its place.
Put(d, k, v) ==
    IF Has(d, k)
    THEN [i \in 1..Len(d) |-> IF d[i][1] = k THEN <<k, v>> ELSE d[i]]
    ELSE Append(d, <<k, v>>)

\* Mutant: holdings equal to the threshold do not qualify.
QualifiesStrictly(holdings, threshold) == holdings > threshold

\* Line 88: the wallet is no whale if holdings < self.min_whale_threshold_usd.
Qualifies(holdings, threshold) == ~(holdings < threshold)

\* Mutant: a wallet that does not qualify loses its profile.
ProfilesAfterDropping(profiles, wallet, profile, whale) ==
    IF whale THEN Put(profiles, wallet, profile)
    ELSE SelectSeq(profiles, LAMBDA item : item[1] # wallet)

\* self.whale_profiles after track_wallet: the early return of lines 88-89
\* assigns nothing, line 92 stores the profile.
ProfilesAfter(profiles, wallet, profile, whale) ==
    IF whale THEN Put(profiles, wallet, profile) ELSE profiles

\* track_wallet (lines 72-97).
TrackWallet ==
    /\ \E wallet \in Wallets, holdings \in HoldingsOf(min_whale_threshold_usd),
          shape \in ProfileShapes :
          LET profile == CreateWhaleProfile(wallet, holdings, shape)
              whale == Qualifies(holdings, min_whale_threshold_usd)
          IN  /\ whale_profiles' =
                    ProfilesAfter(whale_profiles, wallet, profile, whale)
              /\ tracked' = [ made |-> TRUE, wallet |-> wallet,
                              holdings |-> holdings,
                              result |-> IF whale THEN profile ELSE NoProfile ]
    /\ active' = NoActive
    /\ UNCHANGED <<min_whale_threshold_usd, analysis, beside_tracker>>

\* Lines 147-153: the profiles in the order of the table that pass the
\* activity threshold and, when a token is given, hold its key.
RECURSIVE ActiveOf(_, _, _)
ActiveOf(profiles, token_address, min_activity_score) ==
    IF profiles = <<>> THEN <<>>
    ELSE LET profile == profiles[1]
             rest == ActiveOf(Tail(profiles), token_address,
                              min_activity_score)
             kept == /\ profile.activity_score >= min_activity_score
                     /\ token_address # NoToken
                           => Has(profile.tokens_held, token_address)
         IN  IF kept THEN <<profile>> \o rest ELSE rest

\* x placed in the descending list xs behind every element rated at least
\* as high, or in front of them.
InsertBehindEquals(x, xs) ==
    LET ahead == { i \in 1..Len(xs) :
                     xs[i].influence_rating >= x.influence_rating }
        n == Cardinality(ahead)
    IN  SubSeq(xs, 1, n) \o <<x>> \o SubSeq(xs, n + 1, Len(xs))

InsertBeforeEquals(x, xs) ==
    LET ahead == { i \in 1..Len(xs) :
                     xs[i].influence_rating > x.influence_rating }
        n == Cardinality(ahead)
    IN  SubSeq(xs, 1, n) \o <<x>> \o SubSeq(xs, n + 1, Len(xs))

\* Mutant: the sort is not stable, equal ratings come out in reverse.
RECURSIVE SortedTiesReversed(_)
SortedTiesReversed(xs) ==
    IF xs = <<>> THEN <<>>
    ELSE InsertBeforeEquals(xs[Len(xs)],
                            SortedTiesReversed(SubSeq(xs, 1, Len(xs) - 1)))

\* Lines 155-159: sorted(key=influence_rating, reverse=True), a stable sort.
RECURSIVE SortedByInfluence(_)
SortedByInfluence(xs) ==
    IF xs = <<>> THEN <<>>
    ELSE InsertBehindEquals(xs[Len(xs)],
                            SortedByInfluence(SubSeq(xs, 1, Len(xs) - 1)))

TokenFilters == { NoToken, "tokenA", "tokenB" }

\* The default min_activity_score (line 134) and another one.
DefaultMinActivity == F(500)

MinActivityScores == { DefaultMinActivity, F(900) }

\* get_active_whales (lines 131-159).
GetActiveWhales ==
    /\ \E token_address \in TokenFilters,
          min_activity_score \in MinActivityScores :
          active' = [ made |-> TRUE, token_address |-> token_address,
                      min_activity_score |-> min_activity_score,
                      result |-> SortedByInfluence(
                          ActiveOf(Values(whale_profiles), token_address,
                                   min_activity_score)) ]
    /\ tracked' = NoTracked
    /\ UNCHANGED <<min_whale_threshold_usd, whale_profiles, analysis,
                   beside_tracker>>

NextWhale == TrackWallet \/ GetActiveWhales

InitWhale ==
    /\ ListenerIdle /\ CalculatorInit /\ TasksIdle /\ ApiIdle
    /\ TelemetryIdle
    /\ \E threshold \in Thresholds : TrackerConfigured(threshold)
    /\ tracked = NoTracked
    /\ active = NoActive
    /\ analysis = NoAnalysis

SpecWhale == InitWhale /\ [][NextWhale]_allvars

\* The listener and the other components, all just constructed.
\* ------------------------------------------------------ movement analysis
\* What a sub-score computation (_calculate_market_impact,
\* _match_movement_pattern, _analyze_network_effect, lines 207-250, bodies
\* not in the source) yields: a score normalized to [0, 1], or NoneValue
\* when it fails (it raises, or returns None and the arithmetic raises).
SubScores == { 0, F(250), F(500), F(750), F(1000), NoneValue }

\* Mutant: the three sub-scores weigh the same.
TotalImpactEven(market_impact, pattern_match, network_effect) ==
    (market_impact + pattern_match + network_effect) \div 3

\* Lines 120-124: market_impact * 0.4 + pattern_match * 0.3
\* + network_effect * 0.3.
TotalImpact(market_impact, pattern_match, network_effect) ==
    (market_impact \div 10) * 4 + (pattern_match \div 10) * 3
        + (network_effect \div 10) * 3

\* The dict analyze_movement returns (lines 111-129): {} when a sub-score
\* computation failed.
MovementAnalysis(market_impact, pattern_match, network_effect) ==
    IF NoneValue \in { market_impact, pattern_match, network_effect }
    THEN <<>>
    ELSE << <<"market_impact", market_impact>>,
            <<"pattern_match", pattern_match>>,
            <<"network_effect", network_effect>>,
            <<"total_impact_score",
              TotalImpact(market_impact, pattern_match, network_effect)>> >>

\* analyze_movement (lines 99-129) on a movement whose sub-scores are the
\* ones drawn at the start.
AnalyzeMovement ==
    /\ ~analysis.made
    /\ analysis' = [ analysis EXCEPT
           !.made = TRUE,
           !.result = MovementAnalysis(analysis.market_impact,
                                       analysis.pattern_match,
                                       analysis.network_effect) ]
    /\ UNCHANGED <<min_whale_threshold_usd, whale_profiles, tracked, active,
                   beside_tracker>>

InitMovement ==
    /\ ListenerIdle /\ CalculatorInit /\ TasksIdle /\ ApiIdle
    /\ TelemetryIdle
    /\ TrackerConfigured(DefaultThreshold)
    /\ tracked = NoTracked
    /\ active = NoActive
    /\ \E mi \in SubScores, pm \in SubScores, ne \in SubScores :
          analysis = [ made |-> FALSE, result |-> <<>>,
                       market_impact |-> mi, pattern_match |-> pm,
                       network_effect |-> ne ]

SpecMovement == InitMovement /\ [][AnalyzeMovement]_allvars

\* ----------------------------------------------- the tracker's three calls
\* The movements analyzed beside the tracking: one whose sub-scores are
\* computed, one whose pattern matching fails.
MovementsTracked ==
    { [ made |-> FALSE, result |-> <<>>, market_impact |-> F(1000),
        pattern_match |-> F(250), network_effect |-> F(500) ],
      [ made |-> FALSE, result |-> <<>>, market_impact |-> F(500),
        pattern_match |-> NoneValue, network_effect |-> F(500) ] }

InitTracker ==
    /\ ListenerIdle /\ CalculatorInit /\ TasksIdle /\ ApiIdle
    /\ TelemetryIdle
    /\ TrackerConfigured(DefaultThreshold)
    /\ tracked = NoTracked
    /\ active = NoActive
    /\ analysis \in MovementsTracked

NextTracker == TrackWallet \/ GetActiveWhales \/ AnalyzeMovement

SpecTracker == InitTracker /\ [][NextTracker]_allvars

\* -------------------------------------------------------- risk assessment
\* The threshold configurations of a RiskScorer, low < medium < high: the
\* defaults 0.3 / 0.6 / 0.8 and two others.
RiskThresholds ==
    { [ low |-> F(300), medium |-> F(600), high |-> F(800) ],
      [ low |-> F(100), medium |-> F(500), high |-> F(900) ],
      [ low |-> F(290), medium |-> F(300), high |-> F(310) ] }

\* The composite scores classified: 0.00, 0.01, ... 1.00.
CompositeScores == { F(10 * k) : k \in 0..100 }

\* Mutant: the boundaries are inclusive on the upper edge.
RiskLevelUpperInclusive(score, thresholds) ==
    IF score <= thresholds.low THEN "low"
    ELSE IF score <= thresholds.medium THEN "medium"
    ELSE IF score <= thresholds.high THEN "high"
    ELSE "critical"

\* The level of a composite score: below low "low", from low and below
\* medium "medium", from medium and below high "high", from high "critical".
RiskLevel(score, thresholds) ==
    IF score < thresholds.low THEN "low"
    ELSE IF score < thresholds.medium THEN "medium"
    ELSE IF score < thresholds.high THEN "high"
    ELSE "critical"

\* calculate_risk_level on the metrics drawn at the start.
CalculateRiskLevel ==
    /\ ~assessment.made
    /\ assessment' = [ assessment EXCEPT
           !.made = TRUE,
           !.risk_level = RiskLevel(assessment.composite_score,
                                    assessment.risk_thresholds) ]
    /\ UNCHANGED <<request, response, monitoring_tasks, beside_api>>

InitRisk ==
    /\ ListenerIdle /\ CalculatorInit /\ TasksIdle /\ TrackerIdle
    /\ TelemetryIdle
    /\ request = NoRequest
    /\ response = NoResponse
    /\ monitoring_tasks = <<>>
    /\ \E thresholds \in RiskThresholds, score \in CompositeScores :
          assessment = [ made |-> FALSE, risk_thresholds |-> thresholds,
                         composite_score |-> score, risk_level |-> "None" ]

SpecRisk == InitRisk /\ [][CalculateRiskLevel]_allvars

\* ------------------------------------------------------- monitor endpoint
\* The addresses a client may send; "bad" is not a valid token address.
Addresses == { "tokenA", "tokenB", "bad" }

MaxAddresses == 3

\* The token lists of a MonitoringRequest (lines 46-48), the empty one
\* included.
RECURSIVE AddressLists(_)
AddressLists(n) ==
    IF n = 0 THEN { <<>> }
    ELSE AddressLists(n - 1)
            \cup { Append(l, a) : l \in AddressLists(n - 1), a \in Addresses }

\* The default update_interval (line 48) and another one.
DefaultUpdateInterval == 60

UpdateIntervals == { DefaultUpdateInterval, 5 }

\* _validate_tokens (called on line 129, not in the source): the addresses
\* of the request that are valid tokens, in the order given.
RECURSIVE ValidateTokens(_)
ValidateTokens(addresses) ==
    IF addresses = <<>> THEN <<>>
    ELSE IF addresses[1] = "bad" THEN ValidateTokens(Tail(addresses))
    ELSE <<addresses[1]>> \o ValidateTokens(Tail(addresses))

\* _start_monitoring (called on lines 137-140, not in the source): one
\* monitoring task per valid token; the ids of the tasks.
StartMonitoring(valid_tokens, update_interval) ==
    [ i \in 1..Len(valid_tokens) |->
        [ token |-> valid_tokens[i], update_interval |-> update_interval ] ]

\* Lines 148-150: the handler of the try block catches every Exception, an
\* HTTPException raised inside the block included, and raises
\* HTTPException(status_code=500) in its place.
ExceptException(status_code) == 500

\* monitor_tokens (lines 124-150); started tells whether _start_monitoring
\* returned or raised.
MonitorTokens ==
    /\ request.made
    /\ response.status = 0
    /\ \E started \in BOOLEAN :
          LET valid_tokens == ValidateTokens(request.token_addresses)
              tasks == StartMonitoring(valid_tokens, request.update_interval)
          IN  IF valid_tokens = <<>>
              THEN /\ response' = [ status |-> ExceptException(400) ]
                   /\ UNCHANGED monitoring_tasks
              ELSE IF started
              THEN /\ monitoring_tasks' = monitoring_tasks \o tasks
                   /\ response' = [ status |-> 200,
                                    tokens |-> valid_tokens,
                                    task_ids |-> tasks ]
              ELSE /\ response' = [ status |-> ExceptException(500) ]
                   /\ UNCHANGED monitoring_tasks
    /\ UNCHANGED <<assessment, request, beside_api>>

InitMonitor ==
    /\ ListenerIdle /\ CalculatorInit /\ TasksIdle /\ TrackerIdle
    /\ TelemetryIdle
    /\ assessment = NoAssessment
    /\ response = NoResponse
    /\ monitoring_tasks = <<>>
    /\ \E addresses \in AddressLists(MaxAddresses),
          update_interval \in UpdateIntervals :
          request = [ made |-> TRUE, token_addresses |-> addresses,
                      update_interval |-> update_interval ]

SpecMonitor == InitMonitor /\ [][MonitorTokens]_allvars

Init ==
    ListenerInit /\ CalculatorInit /\ TasksIdle /\ TrackerIdle /\ ApiIdle
    /\ TelemetryIdle

Spec == Init /\ [][Next]_vars

SpecCancel == Init /\ [][NextCancel]_vars

\* ---------------------------------------------------------------- telemetry
\* The uptimes in seconds a get_metrics call may find: none has elapsed on
\* the clock, or two seconds.
Uptimes == { 0, 2 }

\* Mutant: with nothing processed an error makes the rate 1.
ErrorRateOfReceived(errors, processed) ==
    IF processed > 0 THEN (errors * Unit) \div processed
    ELSE IF errors > 0 THEN Unit ELSE 0

\* Line 240: errors_encountered / transactions_processed if
\* transactions_processed > 0 else 0.
ErrorRate(errors, processed) ==
    IF processed > 0 THEN (errors * Unit) \div processed ELSE 0

\* Line 239: transactions_processed / uptime if uptime > 0 else 0.
TransactionsPerSecond(processed, uptime) ==
    IF uptime > 0 THEN (processed * Unit) \div uptime ELSE 0

\* get_metrics (lines 231-241), called while the monitoring task is
\* suspended at one of its awaits.  The model follows the listener up to the
\* call and stops there.
GetMetrics ==
    /\ ~reported.made
    /\ \E uptime \in Uptimes :
          reported' =
              [ made |-> TRUE,
                transactions_processed |-> transactions_processed,
                errors_encountered |-> errors_encountered,
                uptime_seconds |-> uptime,
                transactions_per_second |->
                    TransactionsPerSecond(transactions_processed, uptime),
                error_rate |->
                    ErrorRate(errors_encountered, transactions_processed) ]
    /\ UNCHANGED <<vars, mvars, tvars, wvars, avars>>

NextTelemetry ==
    \/ ~reported.made /\ Next
    \/ GetMetrics

SpecTelemetry == Init /\ [][NextTelemetry]_allvars

\* ------------------------------------------------------------- properties
Indices == 0..(PoolSize - 1)

\* The lowest index at which hv answers "ok" among the indices in S.
FirstHealthy(hv, S) ==
    CHOOSE k \in S : hv[k] = "ok" /\ \A i \in S : i < k => hv[i] # "ok"

AnyHealthy(hv, S) == \E k \in S : hv[k] = "ok"

\* C1 as stated, for the failover calls of the monitoring loop: if the first
\* K endpoints of the pool probe unhealthy and the (K+1)-th probes healthy,
\* the call makes the (K+1)-th endpoint the active one, whatever the active
\* index was.
C1_FirstHealthyBecomesActive ==
    (fo.called /\ fo.caller = "loop") =>
        \A K \in Indices :
            (fo.health[K] = "ok" /\ \A i \in 0..(K - 1) : fo.health[i] # "ok")
            => (fo.ok /\ current_rpc_index = K)

\* C1 amended: the same, for every active index other than K itself (the
\* active index is skipped by the scan): the (K+1)-th endpoint becomes the
\* active index and the client is connected to it.
C1_FirstHealthyOtherBecomesActive ==
    fo.called =>
        \A K \in Indices :
            (/\ fo.health[K] = "ok"
             /\ \A i \in 0..(K - 1) : fo.health[i] # "ok"
             /\ fo.prev # K)
            => (fo.ok /\ current_rpc_index = K /\ client = UrlAt(K))

\* C1 witness: a failover from a nonzero active index whose second endpoint
\* is the first healthy one and became active.
C1_Witness ==
    /\ fo.called /\ fo.prev = 2
    /\ fo.health[0] # "ok" /\ fo.health[1] = "ok"
    /\ current_rpc_index = 1

\* C2: a failover call in which no tried endpoint probes healthy fails with
\* ConnectionError; made by the monitoring loop, the error leaves
\* start_monitoring, which takes no further step.
C2_ExhaustionPropagates ==
    (fo.called /\ \A i \in 1..Len(fo.probes) : fo.health[fo.probes[i]] # "ok")
    => (/\ ~fo.ok
        /\ pc = "raised"
        /\ exc = "ConnectionError"
        /\ ~ENABLED (ReceiveError \/ ReceiveNothing \/ ReceiveTransaction
                     \/ InvokeCallback \/ Sleep \/ SubscribeToProgram))

\* C2 witness: the monitoring loop's failover tried two endpoints, none
\* healthy, and start_monitoring has raised.
C2_Witness ==
    /\ fo.called /\ fo.caller = "loop" /\ Len(fo.probes) >= 2
    /\ pc = "raised" /\ exc = "ConnectionError"

\* C3: within one failover call every index is tried at most once and
\* nothing is tried after the first endpoint that probes healthy.
C3_ProbedOnceStopAtHealthy ==
    fo.called =>
        /\ \A i, j \in 1..Len(fo.probes) : i # j => fo.probes[i] # fo.probes[j]
        /\ \A i \in 1..(Len(fo.probes) - 1) : fo.health[fo.probes[i]] # "ok"

\* C3 witness: a call that selected a healthy endpoint and left another
\* healthy endpoint behind it untried.
C3_Witness ==
    /\ fo.called /\ fo.ok
    /\ \E k \in Indices : k > current_rpc_index /\ k # fo.prev /\ fo.health[k] = "ok"

\* C4: a failover call tries the endpoints other than the active one in
\* list order up to the first healthy one, never the active index, and
\* selects the lowest-index other endpoint that probes healthy; after
\* success the active index has changed; a pool of one endpoint always fails.
C4_ScanSkipsActiveInOrder ==
    fo.called =>
        LET others == Indices \ {fo.prev} IN
        /\ \A i \in 1..Len(fo.probes) : fo.probes[i] \in others
        /\ \A i, j \in 1..Len(fo.probes) : i < j => fo.probes[i] < fo.probes[j]
        /\ fo.ok = AnyHealthy(fo.health, others)
        /\ fo.ok => /\ current_rpc_index = FirstHealthy(fo.health, others)
                    /\ current_rpc_index # fo.prev
                    /\ client = IF current_rpc_index < Len(rpc_urls)
                                THEN rpc_urls[current_rpc_index + 1]
                                ELSE backup_rpcs[current_rpc_index - Len(rpc_urls) + 1]
                    /\ \A k \in others : k <= current_rpc_index
                          => \E i \in 1..Len(fo.probes) : fo.probes[i] = k
        /\ ~fo.ok => /\ current_rpc_index = fo.prev
                     /\ \A k \in others : \E i \in 1..Len(fo.probes) : fo.probes[i] = k
        /\ PoolSize = 1 => ~fo.ok

\* C4 witness: the active endpoint itself would have probed healthy, was
\* skipped, and a later one was selected.
C4_Witness ==
    /\ fo.called /\ fo.ok
    /\ fo.health[fo.prev] = "ok"
    /\ fo.prev < current_rpc_index
    /\ fo.prev > 0

\* The consumers transaction tx was handed to, in the order of the calls.
RECURSIVE ConsumersOf(_, _)
ConsumersOf(log, tx) ==
    IF log = <<>> THEN <<>>
    ELSE IF Head(log)[1] = tx THEN <<Head(log)[2]>> \o ConsumersOf(Tail(log), tx)
    ELSE ConsumersOf(Tail(log), tx)

\* process_transaction has returned for a transaction that decoded.
DispatchOver == pc = "sleep" /\ curTx.id > 0 /\ curTx.decoded

\* C5: whenever the monitoring loop is about to issue a receive, every
\* watched program is subscribed on the client in use (so after a receive
\* error the loop has re-subscribed on the new endpoint).
C5_ResubscribedBeforeReceive ==
    pc = "receive" => watched_programs \subseteq subscribed

\* C6: callbacks are invoked in the order the transactions were received:
\* the invocation log never holds a later transaction before an earlier one,
\* and while a transaction is being dispatched no later one has been received.
C6_DispatchInReceiveOrder ==
    /\ \A i, j \in 1..Len(delivered) : i < j => delivered[i][1] <= delivered[j][1]
    /\ \A i \in 1..Len(delivered) : delivered[i][1] \in 1..rxCount
    /\ pc = "dispatch" => (curTx.id = rxCount /\ curTx.decoded)

\* C6 witness: two transactions, each handed to two consumers, with the
\* initial subscription still in place.
C6_Witness ==
    /\ Len(delivered) = 4
    /\ delivered[2][1] = 1 /\ delivered[3][1] = 2
    /\ subscribed = watched_programs

\* C7: when process_transaction returns for a decoded transaction, the
\* consumers it was handed to are exactly the registered ones, each once, in
\* registration order.
C7_EveryConsumerOnceInOrder ==
    DispatchOver => ConsumersOf(delivered, curTx.id) = curTx.cbs

\* C8: when a consumer failed, the consumers registered after it were still
\* handed the transaction.
C8_FailureIsolated ==
    (DispatchOver /\ curTx.failed) =>
        \A k \in 1..Len(curTx.cbs) :
            \E i \in 1..Len(delivered) : delivered[i] = <<curTx.id, curTx.cbs[k]>>

\* C9: a step in which a received transaction fails to decode increments
\* errors_encountered by exactly 1, leaves transactions_processed alone,
\* invokes no consumer, makes no failover and leaves the loop at its sleep,
\* from which the next receive follows.
C9_DecodeFailureDropped ==
    [][(pc = "receive" /\ rxCount' = rxCount + 1 /\ curTx'.error # "none")
       => /\ errors_encountered' = errors_encountered + 1
          /\ transactions_processed' = transactions_processed
          /\ delivered' = delivered
          /\ ~curTx'.decoded
          /\ ~fo'.called
          /\ current_rpc_index' = current_rpc_index /\ client' = client
          /\ pc' = "sleep" /\ exc' = "none"]_vars

\* C9 witness: the second transaction failed on an account index out of
\* range after the first one was dispatched.
C9_Witness ==
    /\ pc = "sleep" /\ curTx.id = 2 /\ curTx.error = "IndexError"
    /\ errors_encountered = 1 /\ transactions_processed = 1
    /\ Len(delivered) = 2

\* C10: when subscribe_to_program fails for a watched program the error
\* leaves start_monitoring, which never enters the receive loop: nothing is
\* received, counted or dispatched, and the task takes no further step.
C10_SubscribeFailureSurfaces ==
    subFailed # {} =>
        /\ pc = "raised" /\ exc = "SubscribeError"
        /\ rxCount = 0 /\ delivered = <<>> /\ curTx = NoTx
        /\ transactions_processed = 0 /\ errors_encountered = 0
        /\ ~ENABLED (ReceiveError \/ ReceiveNothing \/ ReceiveTransaction
                     \/ InvokeCallback \/ Sleep \/ SubscribeToProgram)

\* C10 witness: the second program's subscription failed after the first
\* one succeeded.
C10_Witness ==
    /\ subFailed # {} /\ subscribed # {}
    /\ pc = "raised"

\* The positions of start_monitoring inside its while loop.
InLoop == pc \in {"receive", "dispatch", "sleep"}

\* C11: once in the while loop, start_monitoring always has a next step,
\* and a step leaves the loop only by a failover of the loop in which no
\* endpoint verified (ConnectionError); receive errors with a successful
\* failover, decode errors and consumer errors keep it in the loop.
C11_LoopEndsOnlyOnExhaustion ==
    /\ [](InLoop => ENABLED (ReceiveError \/ ReceiveNothing \/ ReceiveTransaction
                             \/ InvokeCallback \/ Sleep))
    /\ [][InLoop =>
            \/ InLoop'
            \/ /\ pc = "receive" /\ pc' = "raised"
               /\ exc' = "ConnectionError"
               /\ fo'.called /\ fo'.caller = "loop" /\ ~fo'.ok
               /\ \A i \in 1..Len(fo'.probes) : fo'.health[fo'.probes[i]] # "ok"]_vars

\* C11 witness: the loop is still running after a receive error (the active
\* index moved), a decode error and a consumer error.
C11_Witness ==
    /\ pc = "sleep" /\ curTx.failed
    /\ errors_encountered = 2 /\ transactions_processed = 1
    /\ current_rpc_index # 0


\* ------------------------------------------------ metric calculator claims
\* C12: after any sequence of calculate_metrics calls for any tokens, the
\* length of every token's metric history is at most 1000.
C12_HistoryLengthCapped ==
    \A t \in Tokens : Len(metric_history[t]) <= HistoryCap

\* More than 1000 results were computed for a token and its history is full.
C12_Witness ==
    /\ Len(returned["tokenA"]) > HistoryCap + 1
    /\ Len(metric_history["tokenA"]) = HistoryCap
    /\ Len(metric_history["tokenB"]) = 1

\* C13: after n results for a token its history is the most recent
\* min(n, 1000) of them in the order they were computed (after 1050 results,
\* results 51..1050), and the result a call returns is the last element of
\* its token's history.
C13_HistoryIsMostRecentFifo ==
    /\ \A t \in Tokens :
          LET n == Len(returned[t])
              kept == IF n < HistoryCap THEN n ELSE HistoryCap
          IN  /\ Len(metric_history[t]) = kept
              /\ \A i \in 1..kept :
                    metric_history[t][i] = returned[t][n - kept + i]
              /\ n = 1050 =>
                    metric_history[t] = SubSeq(returned[t], 51, 1050)
    /\ call.made =>
          call.result = metric_history[call.token][Len(metric_history[call.token])]

\* 1050 results were computed for one token, interleaved with another's.
C13_Witness ==
    /\ Len(returned["tokenA"]) = 1050
    /\ metric_history["tokenA"][1].timestamp > 51
    /\ call.made /\ call.token = "tokenA"


\* x is a number of [0, 1]
InUnit(x) == x # NaN /\ x >= 0 /\ x <= Unit

\* x is a number of [-1, 1]
InSigned(x) == x # NaN /\ x >= 0 - Unit /\ x <= Unit

SignalsOf(result) ==
    Values(result.chain_metrics) \o Values(result.sentiment_metrics)
        \o Values(result.market_metrics)

AllSignalsInUnit(result) ==
    \A i \in 1..Len(SignalsOf(result)) : InUnit(SignalsOf(result)[i])

EveryCategoryHasSignals(result) ==
    <<>> \notin {result.chain_metrics, result.sentiment_metrics,
                 result.market_metrics}

WeightsSumToOne ==
    metric_weights.chain + metric_weights.sentiment + metric_weights.market = 10

WeightsNonNegative ==
    /\ metric_weights.chain >= 0
    /\ metric_weights.sentiment >= 0
    /\ metric_weights.market >= 0

SummariesInDomain ==
    /\ ~HasNone(call.chain_data)
    /\ Get(call.chain_data, "transaction_volume", 0) >= 0
    /\ InSigned(Get(call.sentiment_data, "sentiment_change", 0))
    /\ InSigned(Get(call.market_data, "price_momentum", 0))

\* C15: every AggregatedMetrics produced by calculate_metrics with default
\* weights has composite_score in [0,1], for all summaries, including signed
\* momentum-type signals in [-1,1], absent fields and empty summaries.
C15_CompositeInUnitByDefault ==
    (call.made /\ metric_weights = DefaultWeights /\ SummariesInDomain)
        => InUnit(call.result.composite_score)

\* C16: every AggregatedMetrics produced by calculate_metrics has confidence
\* in [0,1], for all supplied values of data_points, sentiment confidence and
\* market data_quality.
C16_ConfidenceInUnit ==
    call.made => InUnit(call.result.confidence)

\* The confidence indicators that are present, in the order chain,
\* sentiment, market.
PresentIndicators ==
    LET dp == Get(call.chain_data, "data_points", 0)
    IN  (IF dp > 0
         THEN << IF dp >= DataPointsFull THEN Unit
                 ELSE dp * (Unit \div DataPointsFull) >>
         ELSE <<>>)
        \o (IF Has(call.sentiment_data, "confidence")
            THEN <<Get(call.sentiment_data, "confidence", 0)>> ELSE <<>>)
        \o (IF Has(call.market_data, "data_quality")
            THEN <<Get(call.market_data, "data_quality", 0)>> ELSE <<>>)

\* C17: confidence is the arithmetic mean of exactly the indicators that are
\* present; with none present it is exactly 0, with a single indicator x it
\* is x, and the call returns.
C17_ConfidenceIsMeanOfPresent ==
    call.made =>
        LET n == Len(PresentIndicators)
        IN  /\ call.result.token_address = call.token
            /\ n = 0 => call.result.confidence = 0
            /\ n = 1 => call.result.confidence = PresentIndicators[1]
            /\ n > 0 => call.result.confidence * n = SumSeq(PresentIndicators)

\* data_points is supplied but not positive and only the market supplies an
\* indicator: the confidence is that indicator.
C17_Witness ==
    /\ call.made
    /\ Has(call.chain_data, "data_points")
    /\ Get(call.chain_data, "data_points", 0) = 0
    /\ ~Has(call.sentiment_data, "confidence")
    /\ Has(call.market_data, "data_quality")
    /\ call.result.confidence = F(850)

IsReferenceCall ==
    /\ call.made
    /\ metric_weights = DefaultWeights
    /\ call.chain_data = ReferenceChain
    /\ call.sentiment_data = ReferenceSentiment
    /\ call.market_data = ReferenceMarket

\* |x - y| <= 0.0005
WithinHalfMilli(x, y) == (x - y) * 2 <= F(1) /\ (y - x) * 2 <= F(1)

\* C18: the composite score is the sum over chain, sentiment, market of
\* weight[c] times the mean of the category's normalized signals; for the
\* reference input under default weights the category means are 0.6, 0.5
\* and 0.567, the composite is 0.56 and the confidence is 0.917.
C18_CompositeIsWeightedMean ==
    /\ (call.made /\ EveryCategoryHasSignals(call.result)) =>
          /\ Len(call.result.chain_metrics) = 3
          /\ Len(call.result.sentiment_metrics) = 3
          /\ Len(call.result.market_metrics) = 3
          /\ 3 * call.result.composite_score =
                metric_weights.chain
                    * (SumSeq(Values(call.result.chain_metrics)) \div 10)
                + metric_weights.sentiment
                    * (SumSeq(Values(call.result.sentiment_metrics)) \div 10)
                + metric_weights.market
                    * (SumSeq(Values(call.result.market_metrics)) \div 10)
    /\ IsReferenceCall =>
          /\ SumSeq(Values(call.result.chain_metrics)) = 3 * F(600)
          /\ SumSeq(Values(call.result.sentiment_metrics)) = 3 * F(500)
          /\ WithinHalfMilli(SumSeq(Values(call.result.market_metrics)) \div 3,
                             F(567))
          /\ call.result.composite_score = F(560)
          /\ WithinHalfMilli(call.result.confidence, F(917))

\* The reference input was scored under default weights.
C18_Witness ==
    /\ IsReferenceCall
    /\ call.result.chain_metrics =
          << <<"transaction_volume", F(500)>>, <<"whale_activity", F(700)>>,
             <<"liquidity_score", F(600)>> >>
    /\ call.result.composite_score = F(560)

\* C19: for every raw input every normalized signal lies in its declared
\* bound: the saturating-scaled signals in [0,1] and the signed momentum-type
\* signals in [-1,1].
C19_SignalsInDeclaredBounds ==
    call.made =>
        /\ \A k \in {"transaction_volume", "whale_activity", "liquidity_score"} :
              Has(call.result.chain_metrics, k)
                  => InUnit(Get(call.result.chain_metrics, k, 0))
        /\ Has(call.result.sentiment_metrics, "social_volume")
              => InUnit(Get(call.result.sentiment_metrics, "social_volume", 0))
        /\ Has(call.result.sentiment_metrics, "sentiment_change")
              => InSigned(Get(call.result.sentiment_metrics,
                              "sentiment_change", 0))
        /\ \A k \in {"volatility", "volume_profile"} :
              Has(call.result.market_metrics, k)
                  => InUnit(Get(call.result.market_metrics, k, 0))
        /\ Has(call.result.market_metrics, "price_momentum")
              => InSigned(Get(call.result.market_metrics, "price_momentum", 0))

\* C20: weights that do not sum to 1 are rejected when the calculator is
\* configured, so every calculate_metrics call runs with weights over chain,
\* sentiment and market that sum to 1.0.
C20_CallsRunWithUnitSumWeights ==
    call.made => WeightsSumToOne


\* The raw field behind each normalized signal.
RawFieldOf ==
    [ transaction_volume |-> "transaction_volume",
      whale_activity |-> "whale_activity",
      liquidity_score |-> "liquidity",
      sentiment_score |-> "sentiment_score",
      social_volume |-> "social_volume",
      sentiment_change |-> "sentiment_change",
      volatility |-> "volatility",
      price_momentum |-> "price_momentum",
      volume_profile |-> "volume_profile" ]

\* Every signal of the category is in metrics, and one whose raw field is
\* absent from summary is 0.
AbsentFieldsScoreZero(summary, metrics, signals) ==
    /\ Len(metrics) = Cardinality(signals)
    /\ \A k \in signals :
          /\ Has(metrics, k)
          /\ ~Has(summary, RawFieldOf[k]) => Get(metrics, k, NaN) = 0

SomeFieldAbsent ==
    \/ \E k \in {"transaction_volume", "whale_activity", "liquidity",
                 "data_points"} : ~Has(call.chain_data, k)
    \/ \E k \in {"sentiment_score", "social_volume", "sentiment_change",
                 "confidence"} : ~Has(call.sentiment_data, k)
    \/ \E k \in {"volatility", "price_momentum", "volume_profile",
                 "data_quality"} : ~Has(call.market_data, k)

\* C21: a summary may lack any named field: calculate_metrics returns, no
\* category fails because a field is missing, and a missing data_points,
\* confidence or data_quality only takes that indicator out of the mean.
C21_AbsentFieldsAreValid ==
    (call.made /\ SomeFieldAbsent /\ ~HasNone(call.chain_data)) =>
        /\ call.result.token_address = call.token
        /\ AbsentFieldsScoreZero(call.chain_data, call.result.chain_metrics,
              {"transaction_volume", "whale_activity", "liquidity_score"})
        /\ AbsentFieldsScoreZero(call.sentiment_data,
              call.result.sentiment_metrics,
              {"sentiment_score", "social_volume", "sentiment_change"})
        /\ AbsentFieldsScoreZero(call.market_data, call.result.market_metrics,
              {"volatility", "price_momentum", "volume_profile"})
        /\ LET missing ==
                 { k \in {"data_points"} : ~Has(call.chain_data, k) }
                 \cup { k \in {"confidence"} : ~Has(call.sentiment_data, k) }
                 \cup { k \in {"data_quality"} : ~Has(call.market_data, k) }
               zero == { k \in {"data_points"} :
                           Has(call.chain_data, k)
                           /\ Get(call.chain_data, k, 0) <= 0 }
               averaged == 3 - Cardinality(missing) - Cardinality(zero)
           IN  /\ averaged = Len(PresentIndicators)
               /\ averaged = 0 => call.result.confidence = 0
               /\ averaged > 0 =>
                     call.result.confidence * averaged
                         = SumSeq(PresentIndicators)

\* All three summaries are empty: every signal is 0, the composite and the
\* confidence are 0.
C21_Witness ==
    /\ call.made
    /\ call.chain_data = <<>> /\ call.sentiment_data = <<>>
    /\ call.market_data = <<>>
    /\ Len(SignalsOf(call.result)) = 9
    /\ call.result.composite_score = 0 /\ call.result.confidence = 0

\* The computation of the chain category failed; the inputs are otherwise in
\* the domain in which the composite of the other two categories is in [0,1].
ChainCategoryFailed ==
    /\ call.made
    /\ metric_weights = DefaultWeights
    /\ HasNone(call.chain_data)
    /\ Get(call.sentiment_data, "sentiment_change", 0) >= 0
    /\ Get(call.market_data, "price_momentum", 0) <= Unit

\* C22: when the computation of one category fails, that category yields an
\* empty result and calculate_metrics still returns an AggregatedMetrics whose
\* composite score is a number in [0,1], the failed category contributing
\* zero, and appends it to the history.
C22_FailedCategoryContributesZero ==
    ChainCategoryFailed =>
        /\ call.result.chain_metrics = <<>>
        /\ metric_history[call.token] = <<call.result>>
        /\ InUnit(call.result.composite_score)
        /\ call.result.composite_score =
              Plus(Weighted(Mean(Values(call.result.sentiment_metrics)),
                            metric_weights.sentiment),
                   Weighted(Mean(Values(call.result.market_metrics)),
                            metric_weights.market))


\* C23: calls of calculate_metrics for one token exclude each other: at most
\* one recomputation or history append for a token is in progress at a time,
\* and no append is lost or duplicated: after n completed calls for a token
\* (n at most 1000) its history holds exactly these n entries, under every
\* interleaving of the calling tasks.
C23_OneCallPerTokenAtATime ==
    \A token \in Tokens :
        LET n == Len(returned[token])
            recorded == { t \in Tasks : tstage[t] = "updated"
                                         /\ ttoken[t] = token }
        IN  /\ Cardinality({ t \in Tasks : InProgress(t)
                                           /\ ttoken[t] = token }) <= 1
            /\ n <= HistoryCap =>
                  /\ Len(metric_history[token]) = n + Cardinality(recorded)
                  /\ \A i \in 1..n : metric_history[token][i] = returned[token][i]
                  /\ \A t \in recorded :
                        metric_history[token][n + 1] = tlocal[t]

\* Two tasks hold calls for the same token at once: one has recorded its
\* result and has not returned, the other has not started, a third call
\* having completed before.
C23_Witness ==
    /\ tstage[1] = "updated" /\ tstage[2] = "called"
    /\ ttoken[1] = "tokenA" /\ ttoken[2] = "tokenA"
    /\ Len(returned["tokenA"]) = 1
    /\ Len(metric_history["tokenA"]) = 2


\* C24: when the ingestion loop is cancelled at a suspension point it unwinds
\* and releases the subscription it holds: after cancellation no subscription
\* remains registered against the active endpoint.
C24_CancelReleasesSubscription ==
    pc = "cancelled" => subscribed = {}


PositionIn(profile, token) == Get(profile.tokens_held, token, 0)

\* C26: get_active_whales returns exactly the profiles with activity_score
\* at least min_activity_score and, when a token filter is given, a nonzero
\* position in that token.
C26_ActiveAndHoldingReturned ==
    active.made =>
        \A i \in 1..Len(whale_profiles) :
            LET profile == whale_profiles[i][2]
                wanted ==
                    /\ profile.activity_score >= active.min_activity_score
                    /\ active.token_address # NoToken
                          => PositionIn(profile, active.token_address) # 0
            IN  wanted <=> (\E j \in 1..Len(active.result) :
                                active.result[j] = profile)

\* The place of the wallet in the profile table.
PlaceOf(table, wallet) == CHOOSE i \in 1..Len(table) : table[i][1] = wallet

\* C27: the list get_active_whales returns is in descending order of
\* influence_rating, profiles of equal rating in the order of their insertion
\* into the profile table, the same list for the same arguments and table;
\* the call leaves the profile table unchanged.
C27_SortedStableDeterministic ==
    [][active'.made =>
          /\ whale_profiles' = whale_profiles
          /\ \A i, j \in 1..Len(active'.result) :
                i < j =>
                    LET a == active'.result[i]
                        b == active'.result[j]
                    IN  /\ a.influence_rating >= b.influence_rating
                        /\ a.influence_rating = b.influence_rating =>
                              PlaceOf(whale_profiles, a.wallet_address)
                                  < PlaceOf(whale_profiles, b.wallet_address)
          /\ (/\ active.made
              /\ active.token_address = active'.token_address
              /\ active.min_activity_score = active'.min_activity_score)
                => active'.result = active.result]_allvars

\* Three profiles were returned: the one inserted last is rated highest and
\* comes first, the two of equal rating follow in the order of insertion.
C27_Witness ==
    /\ active.made
    /\ Len(whale_profiles) = 3 /\ Len(active.result) = 3
    /\ active.result[1] = whale_profiles[3][2]
    /\ active.result[2] = whale_profiles[1][2]
    /\ active.result[3] = whale_profiles[2][2]
    /\ active.result[2].influence_rating = active.result[3].influence_rating


\* ---------------------------------------------------- movement analysis claim
\* C28: analyze_movement returns total_impact_score = 0.4 * market_impact
\* + 0.3 * pattern_match + 0.3 * network_effect, which lies in [0, 1] when
\* the three sub-scores do; when a sub-score computation fails the call
\* returns an empty result, where a result is what a call that raises
\* does not have.
C28_TotalImpactWeighted ==
    analysis.made =>
        LET mi == analysis.market_impact
            pm == analysis.pattern_match
            ne == analysis.network_effect
            total == Get(analysis.result, "total_impact_score", NoneValue)
        IN  IF NoneValue \in {mi, pm, ne}
            THEN analysis.result = <<>>
            ELSE /\ 10 * total = 4 * mi + 3 * pm + 3 * ne
                 /\ ({mi, pm, ne} \subseteq 0..Unit => total \in 0..Unit)
                 /\ Get(analysis.result, "market_impact", NoneValue) = mi
                 /\ Get(analysis.result, "pattern_match", NoneValue) = pm
                 /\ Get(analysis.result, "network_effect", NoneValue) = ne

\* A movement with three different sub-scores, the first at the top of the
\* range, was analyzed: its total is 0.4 + 0.3 * 0.25 + 0.3 * 0.5 = 0.625.
C28_Witness ==
    /\ analysis.made
    /\ analysis.market_impact = F(1000)
    /\ analysis.pattern_match = F(250)
    /\ analysis.network_effect = F(500)
    /\ Get(analysis.result, "total_impact_score", NoneValue) = F(625)


\* ------------------------------------------------------ risk assessment claim
\* The levels whose range of scores, lower edge inclusive, holds the score.
LevelsHolding(score, thresholds) ==
    { level \in {"low", "medium", "high", "critical"} :
        \/ level = "low" /\ score < thresholds.low
        \/ level = "medium" /\ thresholds.low <= score
                            /\ score < thresholds.medium
        \/ level = "high" /\ thresholds.medium <= score
                          /\ score < thresholds.high
        \/ level = "critical" /\ thresholds.high <= score }

\* The level the boundary examples give for a score under 0.3 / 0.6 / 0.8.
BoundaryExamples ==
    << <<F(290), "low">>, <<F(300), "medium">>, <<F(590), "medium">>,
       <<F(600), "high">>, <<F(790), "high">>, <<F(800), "critical">> >>

\* C29: with thresholds low < medium < high a composite score below low is
\* "low", in [low, medium) "medium", in [medium, high) "high", at or above
\* high "critical": under (0.3, 0.6, 0.8) the scores 0.29, 0.30, 0.59, 0.60,
\* 0.79, 0.80 are low, medium, medium, high, high, critical, and every score
\* has exactly one level.
C29_RiskLevelBoundaries ==
    assessment.made =>
        LET score == assessment.composite_score
            thresholds == assessment.risk_thresholds
        IN  /\ LevelsHolding(score, thresholds) = { assessment.risk_level }
            /\ (thresholds.low = F(300) /\ thresholds.medium = F(600)
                   /\ thresholds.high = F(800))
                  => \A i \in 1..Len(BoundaryExamples) :
                        score = BoundaryExamples[i][1]
                           => assessment.risk_level = BoundaryExamples[i][2]

\* The score 0.60 was classified under the default thresholds: it is "high".
C29_Witness ==
    /\ assessment.made
    /\ assessment.risk_thresholds.medium = F(600)
    /\ assessment.composite_score = F(600)
    /\ assessment.risk_level = "high"


\* ------------------------------------------------------ monitor endpoint claim
\* C30: a monitor request without a valid token, the empty token list
\* included, is answered with HTTP 400 and starts no monitoring task; the
\* 400 is not turned into a server error.
C30_NoValidTokensIs400 ==
    (/\ response.status # 0
     /\ ValidateTokens(request.token_addresses) = <<>>)
        => /\ response.status = 400
           /\ monitoring_tasks = <<>>


\* ------------------------------------------------------- telemetry claims
\* process_transaction is running or has just returned.
InTransaction == curTx.id > 0

\* C31: process_transaction adds 1 to transactions_processed when the
\* transaction decoded and 1 to errors_encountered when the decoding or a
\* consumer failed; one transaction adds at most 1 to either counter,
\* however many of the registered consumers would fail.
C31_CountersStepByOne ==
    InTransaction =>
        /\ transactions_processed - curTx.processed0
              = (IF curTx.decoded THEN 1 ELSE 0)
        /\ errors_encountered - curTx.errors0
              = (IF curTx.failed \/ ~curTx.decoded THEN 1 ELSE 0)

\* The first of two registered consumers failed on the second transaction,
\* the first transaction having failed too: the second one added 1 to each
\* counter.
C31_Witness ==
    /\ pc = "sleep" /\ curTx.id = 2
    /\ curTx.decoded /\ curTx.failed
    /\ Len(transaction_callbacks) = 2
    /\ ConsumersOf(delivered, 2) = <<1>>
    /\ curTx.errors0 = 1
    /\ errors_encountered = 2
    /\ transactions_processed = curTx.processed0 + 1


\* C32: get_metrics reports error_rate = errors_encountered /
\* transactions_processed and transactions_per_second =
\* transactions_processed / uptime, each 0 when its denominator is 0 (so
\* error_rate is 0 when nothing was processed, whatever errors_encountered
\* is), and changes neither counter.
C32_RatesZeroOnZeroDenominator ==
    [][(reported'.made /\ ~reported.made) =>
          /\ transactions_processed' = transactions_processed
          /\ errors_encountered' = errors_encountered
          /\ reported'.transactions_processed = transactions_processed
          /\ reported'.errors_encountered = errors_encountered
          /\ IF transactions_processed = 0
             THEN reported'.error_rate = 0
             ELSE reported'.error_rate * transactions_processed
                     = errors_encountered * Unit
          /\ IF reported'.uptime_seconds = 0
             THEN reported'.transactions_per_second = 0
             ELSE reported'.transactions_per_second
                     * reported'.uptime_seconds
                     = transactions_processed * Unit]_allvars

\* get_metrics was called after two transactions that did not decode, with
\* nothing processed: the error rate it reported is 0.
C32_Witness ==
    /\ reported.made
    /\ transactions_processed = 0
    /\ errors_encountered = 2
    /\ reported.errors_encountered = 2
    /\ reported.error_rate = 0
    /\ reported.uptime_seconds = 2
    /\ reported.transactions_per_second = 0


\* ------------------------------------------------------ profile table claim
\* C33: a whale profile is never deleted: a wallet that has an entry in
\* whale_profiles has one after every later track_wallet, analyze_movement
\* and get_active_whales call, a track_wallet of the same wallet with
\* holdings below the threshold, or none found by the lookup, included.
C33_ProfileNeverDeleted ==
    [][\A i \in 1..Len(whale_profiles) :
          /\ Has(whale_profiles', whale_profiles[i][1])
          /\ i <= Len(whale_profiles')
          /\ whale_profiles'[i][1] = whale_profiles[i][1]]_allvars

\* A wallet with a profile was tracked again with no holdings found: the
\* call returned None and the wallet's profile, with the holdings it
\* qualified with, is still in the table, a movement having been analyzed
\* in between.
C33_Witness ==
    /\ tracked.made
    /\ tracked.holdings = 0
    /\ tracked.result = NoProfile
    /\ analysis.made
    /\ Has(whale_profiles, tracked.wallet)
    /\ Get(whale_profiles, tracked.wallet, NoProfile).total_holdings_usd
          = min_whale_threshold_usd


\* ------------------------------------------------------- endpoint claims
\* C34: when the primary endpoint fails its liveness probe during
\* initialize the listener fails over before subscribing: start_monitoring
\* never subscribes or receives on an endpoint whose latest probe was
\* unhealthy.
C34_NoSubscribeOnUnhealthy ==
    pc \in {"subscribing", "receive"} => lastProbe = "ok"

\* C35: the connection in use is the one active endpoint: whenever the
\* monitoring loop issues a receive, the client is connected to the
\* endpoint at current_rpc_index of the primary-then-backup list, and
\* current_rpc_index is always a valid index of that list.
C35_ClientIsActiveEndpoint ==
    /\ current_rpc_index \in Indices
    /\ pc = "receive" => client = UrlAt(current_rpc_index)

\* The loop is about to receive on the third endpoint of the list, to which
\* a failover made in the loop, after a transaction, has switched.
C35_Witness ==
    /\ pc = "receive"
    /\ rxCount = 1
    /\ current_rpc_index = 2
    /\ client = UrlAt(2)
    /\ lastProbe = "ok"

\* C36: a failover call that fails with all endpoints unavailable leaves
\* current_rpc_index and the client connection as they were before the
\* call, and no failover modifies the endpoint lists.
C36_FailedFailoverChangesNothing ==
    [][fo'.called =>
          /\ rpc_urls' = rpc_urls /\ backup_rpcs' = backup_rpcs
          /\ ~fo'.ok => /\ current_rpc_index' = current_rpc_index
                        /\ client' = client]_vars

\* C37: a consumer failure triggers no failover and does not reach the
\* monitoring loop: process_transaction returns normally to the loop, and
\* the transaction, which decoded, is counted once in
\* transactions_processed and once in errors_encountered.
C37_ConsumerFailureStaysInside ==
    [][(pc = "dispatch" /\ curTx'.failed) =>
          /\ pc' = "sleep"
          /\ exc' = "none"
          /\ ~fo'.called
          /\ current_rpc_index' = current_rpc_index
          /\ client' = client
          /\ subscribed' = subscribed
          /\ curTx'.decoded
          /\ transactions_processed' = curTx'.processed0 + 1
          /\ errors_encountered' = curTx'.errors0 + 1]_vars

\* The second consumer failed on the first transaction: the loop sleeps on
\* the endpoint it started on, each counter at 1.
C37_Witness ==
    /\ pc = "sleep" /\ curTx.id = 1
    /\ curTx.decoded /\ curTx.failed
    /\ ConsumersOf(delivered, 1) = <<1, 2>>
    /\ transactions_processed = 1 /\ errors_encountered = 1
    /\ exc = "none"
    /\ current_rpc_index = 0 /\ client = UrlAt(0)

\* ------------------------------------------------------- history frame
\* C38: the histories of different tokens are independent: a
\* calculate_metrics call for a token appends to, and may evict from, the
\* history of that token only and leaves the history of every other token
\* unchanged.
C38_OtherHistoriesUnchanged ==
    [][clock' = clock + 1 =>
          LET token == call'.token
              before == metric_history[token]
              after == metric_history'[token]
          IN  /\ \A t \in Tokens \ {token} :
                    metric_history'[t] = metric_history[t]
              /\ after # <<>>
              /\ after[Len(after)] = call'.result
              /\ Len(after) \in {Len(before), Len(before) + 1}
              /\ Len(after) = Len(before) => Len(before) = HistoryCap
         ]_<<vars, mvars>>

\* A call for tokenA evicted the oldest entry of tokenA's history while the
\* history of tokenB holds the one result returned for tokenB.
C38_Witness ==
    /\ call.made /\ call.token = "tokenA"
    /\ Len(returned["tokenA"]) = HistoryCap + 1
    /\ Len(metric_history["tokenA"]) = HistoryCap
    /\ Len(metric_history["tokenB"]) = 1
    /\ metric_history["tokenB"] = returned["tokenB"]

=============================================================================
